---- MODULE Spec2Model ----
(***************************************************************************)
(* log_utils: the LogManager registry, the FileLogger file writers, the    *)
(* writeLog dispatch function and the AutoLogExporter shutdown hook of     *)
(* include/log_utils/log_utils.h, as a state machine.                      *)
(*                                                                         *)
(* A file on disk is a sequence of chunks.  FileLogger::log sends one      *)
(* record to its stream in two pieces: the prefix                          *)
(* "[ts] [LEVEL] [module] basename:line - " (a "head" chunk) and the       *)
(* message with the newline (a "tail" chunk).  A whole line is a head      *)
(* immediately followed by the tail of the same call.  Every chunk names    *)
(* the call it belongs to (op) and the FileLogger whose stream wrote it     *)
(* (lg); every FileLogger records the order in which calls were granted    *)
(* its lock (acq).                                                         *)
(***************************************************************************)
EXTENDS Naturals, Sequences, FiniteSets, TLC

\* ------------------------------------------------------------------ bounds
NumThreads == 2
MaxOps == 3
MaxTU == 2
MaxClock == 1

Threads == 1..NumThreads
Null == 0
NoThread == 0

\* ------------------------------------------------------------ LogLevel enum
DEBUG == 0
INFO == 1
WARN == 2
ERROR == 3
LogLevel == {DEBUG, INFO, WARN, ERROR}

\* ------------------------------------------------------------------ inputs
Modules == {"ALL_LOGS_SUMMARY", "CONTROLLER", "Planner"}
\* std::map<std::string, ...> iterates its keys in lexicographic order
KeyOrder == <<"ALL_LOGS_SUMMARY", "CONTROLLER", "Planner">>
\* source file paths (__FILE__), as character sequences
SourceFiles == {<<"s", "/", "d", "\\", "q">>}
SourceLines == {42}
Messages == {"started"}
Separators == {"/", "\\"}

\* environment variables: unset, or set to a value
Unset == [set |-> FALSE, val |-> ""]
EnvValue(v) == [set |-> TRUE, val |-> v]
Environments ==
    { [LOG_DIR |-> Unset, ROS_WORKSPACE |-> Unset] }
\* the levels writeLog is called with, the minimum levels getLogger is called with
WriteLevels == {INFO, WARN}
MinLevels == {WARN}

VARIABLES
    phase,            \* "init" (static initialisation), "main", "exit", "done", "crashed"
    numTU,            \* translation units that include the header
    statics,          \* static-storage objects alive, in order of construction
    env,              \* the process environment
    openable,         \* the paths the file system lets the process open for append
    disk,             \* path -> file contents (sequence of chunks), existing files only
    reg,              \* LogManager instance: "none", "alive", "destroyed"
    base_log_dir_,    \* LogManager::base_log_dir_
    initialized_,     \* LogManager::initialized_
    loggers_,         \* LogManager::loggers_ : module name -> FileLogger id
    summary_logger_,  \* LogManager::summary_logger_ : FileLogger id or Null
    mutex_,           \* LogManager::mutex_ : owning thread or NoThread
    heap,             \* every FileLogger ever constructed, by id
    pc,               \* thread -> position
    call,             \* thread -> arguments of the call in progress
    logger,           \* thread -> the shared_ptr<FileLogger> it got from getLogger
    report,           \* thread -> what its exportLogs call printed
    nops,             \* calls started so far
    exported,         \* 0, or 1 + the calls started when the first exportLogs completed
    autoExports,      \* exportLogs calls made by ~AutoLogExporter
    hookReport,       \* what the last ~AutoLogExporter export printed
    now               \* the wall clock (std::chrono::system_clock::now()), in ticks

vars == <<phase, numTU, statics, env, openable, disk, reg, base_log_dir_, initialized_,
          loggers_, summary_logger_, mutex_, heap, pc, call, logger, report, nops,
          exported, autoExports, hookReport, now>>

\* ----------------------------------------------------------------- helpers
Max(S) == CHOOSE x \in S : \A y \in S : y <= x

Count(seq, x) == Cardinality({i \in 1..Len(seq) : seq[i] = x})

\* getFileName: the part after the last '/' or '\', the whole path if none
getFileName(path) ==
    LET seps == {i \in 1..Len(path) : path[i] \in Separators}
    IN  IF seps = {} THEN path ELSE SubSeq(path, Max(seps) + 1, Len(path))

logLevelToString(level) ==
    CASE level = DEBUG -> "DEBUG"
      [] level = INFO  -> "INFO"
      [] level = WARN  -> "WARN"
      [] level = ERROR -> "ERROR"
      [] OTHER         -> "UNKNOWN"

\* an initializeLogDirectory that looks at ROS_WORKSPACE first
BaseDirWorkspaceFirst(e) ==
    IF e.ROS_WORKSPACE.set THEN e.ROS_WORKSPACE.val \o "/logs/current"
    ELSE IF e.LOG_DIR.set THEN e.LOG_DIR.val
    ELSE "/tmp/two_stage_int_logs"

\* base directory precedence of initializeLogDirectory
BaseDir(e) ==
    IF e.LOG_DIR.set THEN e.LOG_DIR.val
    ELSE IF e.ROS_WORKSPACE.set THEN e.ROS_WORKSPACE.val \o "/logs/current"
    ELSE "/tmp/two_stage_int_logs"

SummaryPath(dir) == dir \o "/ALL_LOGS_SUMMARY.log"
ModulePath(dir, module_name) == dir \o "/" \o module_name \o ".log"
PathsUnder(dir) == {SummaryPath(dir)} \cup {ModulePath(dir, m) : m \in Modules}

\* what the file system allows: everything; nothing (the directory could not
\* be created); everything but the summary file; everything but one module file
OpenChoices(dir) ==
    { PathsUnder(dir), {}, PathsUnder(dir) \ {SummaryPath(dir)},
      PathsUnder(dir) \ {ModulePath(dir, "Planner")} }

\* getCurrentTimestamp: the wall clock at the moment of the call (reading the
\* clock and formatting it are taken as one step)
getCurrentTimestamp == now

\* the two pieces FileLogger::log sends to the stream for one record
HeadChunk(lg, id, level, module, file, line) ==
    [part |-> "head", lg |-> lg, op |-> id, ts |-> getCurrentTimestamp,
     text |-> <<logLevelToString(level), module, getFileName(file), line>>]
TailChunk(lg, id, message) ==
    [part |-> "tail", lg |-> lg, op |-> id, text |-> <<message>>]

\* -------------------------------------------------------------- FileLogger
\* FileLogger::FileLogger: open the path for append; a failed open leaves the
\* stream closed
FileLogger(file_path, min_level) ==
    [log_file_path_ |-> file_path, min_level_ |-> min_level,
     is_open |-> file_path \in openable, buf |-> <<>>, mutex_ |-> NoThread,
     alive |-> TRUE, acq |-> <<>>]

\* std::ofstream::open(path, std::ios::app): creates the file when it is absent
OpenAppend(d, path) ==
    IF path \in openable /\ path \notin DOMAIN d
    THEN [p \in DOMAIN d \cup {path} |-> IF p = path THEN <<>> ELSE d[p]]
    ELSE d

\* FileLogger::~FileLogger: close the stream if it is open
DestroyFileLogger(fl) == [fl EXCEPT !.is_open = FALSE, !.alive = FALSE]

\* a log that writes to a stream whose file never opened
DroppedBelowMinimumOnly(fl, level) == level < fl.min_level_

\* a log that also drops the records at the minimum level itself
DroppedAtMinimum(fl, level) == level <= fl.min_level_ \/ ~fl.is_open

\* a log that never looks at the level
DroppedOnlyIfClosed(fl, level) == ~fl.is_open

\* FileLogger::log, the early return: below the minimum level or not open.
\* The test runs before the lock is taken; min_level_ and the stream's open
\* state do not change between construction and destruction, so it reads the
\* values the constructor left.
Dropped(fl, level) == level < fl.min_level_ \/ ~fl.is_open

\* a log that takes one lock shared by every FileLogger
LoggerLockShared(fl) == \A id \in DOMAIN heap : heap[id].mutex_ = NoThread

\* a log that does not wait for the logger's lock
LoggerLockIgnored(fl) == TRUE

\* std::lock_guard<std::mutex> lock(mutex_) of FileLogger::log can be taken
LoggerLockFree(fl) == fl.mutex_ = NoThread

\* log_file_ << ... : the stream buffers the chunk
StreamPut(fl, chunk) == [fl EXCEPT !.buf = Append(@, chunk)]

\* a log that ends the line with '\n' and never flushes
FlushOutNothing(fl) == <<>>

\* std::endl / log_file_.flush(): the chunks the stream hands to the file
FlushOut(fl) == fl.buf

\* --------------------------------------------------------------- LogManager
EmptyMap == [m \in {} |-> Null]

\* LogManager::getInstance(): the function-local static is constructed on
\* first use (LogManager() runs initializeLogDirectory) and registered for
\* destruction after every static object constructed later.
GetInstance(stk) ==
    IF reg = "none"
    THEN LET dir == BaseDir(env)
             path == SummaryPath(dir)
         IN  /\ reg' = "alive"
             /\ base_log_dir_' = dir
             /\ heap' = Append(heap, FileLogger(path, DEBUG))
             /\ disk' = OpenAppend(disk, path)
             /\ summary_logger_' = Len(heap) + 1
             /\ loggers_' = EmptyMap
             /\ mutex_' = NoThread
             /\ initialized_' = TRUE
             /\ statics' = Append(stk, "reg")
    ELSE /\ statics' = stk
         /\ UNCHANGED <<reg, base_log_dir_, heap, disk, summary_logger_, loggers_,
                        mutex_, initialized_>>

\* a getLogger that does not wait for the registry lock
RegistryLockIgnored == TRUE

\* std::lock_guard<std::mutex> lock(mutex_) of getLogger / exportLogs can be taken
RegistryLockFree == mutex_ = NoThread

\* a getLogger that never finds the registered logger
FindNothing(module_name) == Null

\* loggers_.find(module_name): the registered logger, Null for end()
Find(module_name) ==
    IF module_name \in DOMAIN loggers_ THEN loggers_[module_name] ELSE Null

\* a getLogger that constructs the logger and forgets to register it
RegisterNothing(lgs, module_name, id) == lgs

\* loggers_[module_name] = logger
Register(lgs, module_name, id) ==
    [m \in DOMAIN lgs \cup {module_name} |-> IF m = module_name THEN id ELSE lgs[m]]

\* an exportLogs whose loop closes the module loggers' files
exportLogsLoopClosing(hp, lgs) ==
    [id \in DOMAIN hp |->
        IF \E m \in DOMAIN lgs : lgs[m] = id
        THEN [hp[id] EXCEPT !.is_open = FALSE]
        ELSE hp[id]]

\* exportLogs, the first loop over loggers_: its body is empty
exportLogsLoop(hp, lgs) == hp

\* bookkeeping: when the first exportLogs call completed
FirstExport == IF exported = 0 THEN nops + 1 ELSE exported

\* exportLogs, what it prints: the directory, the summary path, the module paths
ExportOutput(dir, sum, lgs, hp) ==
    LET Registered(k) == k \in DOMAIN lgs
        keys == SelectSeq(KeyOrder, Registered)
    IN  [dir |-> dir,
         paths |-> (IF sum # Null THEN <<hp[sum].log_file_path_>> ELSE <<>>)
                   \o [i \in 1..Len(keys) |-> hp[lgs[keys[i]]].log_file_path_]]

NoReport == [dir |-> "", paths |-> <<>>]
NoCall ==
    [kind |-> "none", id |-> 0, module |-> "", level |-> DEBUG, file |-> <<>>,
     line |-> 0, message |-> ""]

\* ---------------------------------------------------------------------- Init
\* the process starts: nothing constructed, `tus` the possible numbers of
\* translation units that include the header
Boot(tus) ==
    /\ phase = "init"
    /\ numTU \in tus
    /\ statics = <<>>
    /\ env \in Environments
    /\ openable \in OpenChoices(BaseDir(env))
    /\ disk = [p \in {} |-> <<>>]
    /\ reg = "none"
    /\ base_log_dir_ = ""
    /\ initialized_ = FALSE
    /\ loggers_ = EmptyMap
    /\ summary_logger_ = Null
    /\ mutex_ = NoThread
    /\ heap = <<>>
    /\ pc = [t \in Threads |-> "idle"]
    /\ call = [t \in Threads |-> NoCall]
    /\ logger = [t \in Threads |-> Null]
    /\ report = [t \in Threads |-> NoReport]
    /\ nops = 0
    /\ exported = 0
    /\ autoExports = 0
    /\ hookReport = NoReport
    /\ now = 0

\* a program of one translation unit
Init == Boot({1})

\* a program of one or more translation units
InitExit == Boot(1..MaxTU)

\* ------------------------------------------------------ static initialisation
Exporters == Cardinality({i \in 1..Len(statics) : statics[i] = "exp"})

\* the dynamic initialisation of one translation unit: its g_auto_exporter
InitTU ==
    /\ phase = "init"
    /\ Exporters < numTU
    /\ statics' = Append(statics, "exp")
    /\ UNCHANGED <<now, phase, numTU, env, openable, disk, reg, base_log_dir_, initialized_,
                   loggers_, summary_logger_, mutex_, heap, pc, call, logger, report,
                   nops, exported, autoExports, hookReport>>

\* a static initialiser uses LogManager::getInstance() before main
StaticGetInstance ==
    /\ phase = "init"
    /\ reg = "none"
    /\ GetInstance(statics)
    /\ UNCHANGED <<now, phase, numTU, env, openable, pc, call, logger, report, nops,
                   exported, autoExports, hookReport>>

StartMain ==
    /\ phase = "init"
    /\ Exporters = numTU
    /\ phase' = "main"
    /\ UNCHANGED <<now, numTU, statics, env, openable, disk, reg, base_log_dir_, initialized_,
                   loggers_, summary_logger_, mutex_, heap, pc, call, logger, report,
                   nops, exported, autoExports, hookReport>>

\* ------------------------------------------------------------- thread calls
\* Threads run while main runs (phase "main"); main joins them before it returns.
\* A thread starts LogManager::getInstance().getLogger(module, min_level),
\* writeLog(module, level, file, line, message) or
\* LogManager::getInstance().exportLogs(); each begins with getInstance().
Call(t) ==
    /\ phase = "main"
    /\ pc[t] = "idle"
    /\ nops < MaxOps
    /\ nops' = nops + 1
    /\ GetInstance(statics)
    /\ \/ \E m \in Modules, lv \in MinLevels :
            /\ call' = [call EXCEPT ![t] =
                   [NoCall EXCEPT !.kind = "getLogger", !.id = nops + 1,
                                  !.module = m, !.level = lv]]
            /\ pc' = [pc EXCEPT ![t] = "getLogger"]
       \/ \E m \in Modules, lv \in WriteLevels, f \in SourceFiles,
             ln \in SourceLines, msg \in Messages :
            /\ call' = [call EXCEPT ![t] =
                   [kind |-> "writeLog", id |-> nops + 1, module |-> m,
                    level |-> lv, file |-> f, line |-> ln, message |-> msg]]
            /\ pc' = [pc EXCEPT ![t] = "getLogger"]
       \/ /\ call' = [call EXCEPT ![t] =
                   [NoCall EXCEPT !.kind = "exportLogs", !.id = nops + 1]]
          /\ pc' = [pc EXCEPT ![t] = "exportLogs"]
    /\ UNCHANGED <<now, phase, numTU, env, openable, logger, report, exported,
                   autoExports, hookReport>>

\* getLogger: take the registry lock and look the module up
GetLoggerLock(t) ==
    /\ phase = "main"
    /\ pc[t] = "getLogger"
    /\ RegistryLockFree
    /\ mutex_' = t
    /\ logger' = [logger EXCEPT ![t] = Find(call[t].module)]
    /\ pc' = [pc EXCEPT ![t] = "gl_create"]
    /\ UNCHANGED <<now, phase, numTU, statics, env, openable, disk, reg, base_log_dir_,
                   initialized_, loggers_, summary_logger_, heap, call, report, nops,
                   exported, autoExports, hookReport>>

\* a writeLog that passes the record's level on as the minimum level
MinLevelArgOfRecord(c) == c.level

\* the minimum level getLogger is called with: writeLog passes none (DEBUG)
MinLevelArg(c) == IF c.kind = "writeLog" THEN DEBUG ELSE c.level

\* getLogger: return the logger found, or construct one, register it if its
\* file opened and return it (nullptr if not); the lock is released on return
GetLoggerFinish(t) ==
    /\ phase = "main"
    /\ pc[t] = "gl_create"
    /\ IF logger[t] # Null
       THEN UNCHANGED <<heap, disk, loggers_, logger>>
       ELSE LET path == ModulePath(base_log_dir_, call[t].module)
                new == FileLogger(path, MinLevelArg(call[t]))
                id == Len(heap) + 1
            IN  /\ disk' = OpenAppend(disk, path)
                /\ IF new.is_open
                   THEN /\ heap' = Append(heap, new)
                        /\ loggers_' = Register(loggers_, call[t].module, id)
                        /\ logger' = [logger EXCEPT ![t] = id]
                   ELSE /\ heap' = Append(heap, DestroyFileLogger(new))
                        /\ UNCHANGED <<loggers_, logger>>
    /\ mutex_' = NoThread
    /\ pc' = [pc EXCEPT ![t] = IF call[t].kind = "getLogger" THEN "ret" ELSE "mod_log"]
    /\ UNCHANGED <<now, phase, numTU, statics, env, openable, reg, base_log_dir_,
                   initialized_, summary_logger_, call, report, nops, exported,
                   autoExports, hookReport>>

\* FileLogger::log up to the first output: return early if the record is
\* dropped, else take the logger's lock and send the prefix to the stream
LogBegin(t, lg, dropTo, writeAt) ==
    IF lg = Null \/ Dropped(heap[lg], call[t].level)
    THEN /\ pc' = [pc EXCEPT ![t] = dropTo]
         /\ UNCHANGED heap
    ELSE /\ LoggerLockFree(heap[lg])
         /\ heap' = [heap EXCEPT ![lg] =
                StreamPut([@ EXCEPT !.mutex_ = t, !.acq = Append(@, call[t].id)],
                          HeadChunk(lg, call[t].id, call[t].level, call[t].module,
                                    call[t].file, call[t].line))]
         /\ pc' = [pc EXCEPT ![t] = writeAt]

\* a log that returns without releasing the logger's lock
LogEndKeepsLock(t, lg, nextPc) ==
    LET fl == StreamPut(heap[lg], TailChunk(lg, call[t].id, call[t].message))
        out == FlushOut(fl)
    IN  /\ disk' = [disk EXCEPT ![fl.log_file_path_] = @ \o out]
        /\ heap' = [heap EXCEPT ![lg] =
               [fl EXCEPT !.buf = SubSeq(fl.buf, Len(out) + 1, Len(fl.buf))]]
        /\ pc' = [pc EXCEPT ![t] = nextPc]

\* FileLogger::log from the message on: message, std::endl, flush(), unlock
LogEnd(t, lg, nextPc) ==
    LET fl == StreamPut(heap[lg], TailChunk(lg, call[t].id, call[t].message))
        out == FlushOut(fl)
    IN  /\ disk' = [disk EXCEPT ![fl.log_file_path_] = @ \o out]
        /\ heap' = [heap EXCEPT ![lg] =
               [fl EXCEPT !.buf = SubSeq(fl.buf, Len(out) + 1, Len(fl.buf)),
                          !.mutex_ = NoThread]]
        /\ pc' = [pc EXCEPT ![t] = nextPc]

\* a writeLog that returns when the module logger is null
AfterModuleLogNullReturns(lg) == IF lg = Null THEN "ret" ELSE "sum_log"

\* writeLog: where it goes on after the module logger, null or not
AfterModuleLog(lg) == "sum_log"

\* writeLog: if (logger) logger->log(...)
ModuleLogEnter(t) ==
    /\ phase = "main"
    /\ pc[t] = "mod_log"
    /\ LogBegin(t, logger[t], AfterModuleLog(logger[t]), "mod_write")
    /\ UNCHANGED <<now, phase, numTU, statics, env, openable, disk, reg, base_log_dir_,
                   initialized_, loggers_, summary_logger_, mutex_, call, logger,
                   report, nops, exported, autoExports, hookReport>>

ModuleLogWrite(t) ==
    /\ phase = "main"
    /\ pc[t] = "mod_write"
    /\ LogEnd(t, logger[t], AfterModuleLog(logger[t]))
    /\ UNCHANGED <<now, phase, numTU, statics, env, openable, reg, base_log_dir_,
                   initialized_, loggers_, summary_logger_, mutex_, call, logger,
                   report, nops, exported, autoExports, hookReport>>

\* writeLog: summary_logger = manager.getSummaryLogger(); if (summary_logger) ...->log(...)
SummaryLogEnter(t) ==
    /\ phase = "main"
    /\ pc[t] = "sum_log"
    /\ LogBegin(t, summary_logger_, "ret", "sum_write")
    /\ UNCHANGED <<now, phase, numTU, statics, env, openable, disk, reg, base_log_dir_,
                   initialized_, loggers_, summary_logger_, mutex_, call, logger,
                   report, nops, exported, autoExports, hookReport>>

SummaryLogWrite(t) ==
    /\ phase = "main"
    /\ pc[t] = "sum_write"
    /\ LogEnd(t, summary_logger_, "ret")
    /\ UNCHANGED <<now, phase, numTU, statics, env, openable, reg, base_log_dir_,
                   initialized_, loggers_, summary_logger_, mutex_, call, logger,
                   report, nops, exported, autoExports, hookReport>>

\* exportLogs: take the registry lock
ExportLock(t) ==
    /\ phase = "main"
    /\ pc[t] = "exportLogs"
    /\ RegistryLockFree
    /\ mutex_' = t
    /\ pc' = [pc EXCEPT ![t] = "ex_report"]
    /\ UNCHANGED <<now, phase, numTU, statics, env, openable, disk, reg, base_log_dir_,
                   initialized_, loggers_, summary_logger_, heap, call, logger, report,
                   nops, exported, autoExports, hookReport>>

\* an exportLogs that returns without releasing the registry lock
ExportReportKeepsLock(t) ==
    /\ phase = "main"
    /\ pc[t] = "ex_report"
    /\ heap' = exportLogsLoop(heap, loggers_)
    /\ report' = [report EXCEPT ![t] =
           ExportOutput(base_log_dir_, summary_logger_, loggers_, heap)]
    /\ exported' = FirstExport
    /\ pc' = [pc EXCEPT ![t] = "ret"]
    /\ UNCHANGED <<now, phase, numTU, statics, env, openable, disk, reg, base_log_dir_,
                   initialized_, loggers_, summary_logger_, mutex_, call, logger, nops,
                   autoExports, hookReport>>

\* exportLogs: the (empty) loop, the printed report, unlock
ExportReport(t) ==
    /\ phase = "main"
    /\ pc[t] = "ex_report"
    /\ heap' = exportLogsLoop(heap, loggers_)
    /\ report' = [report EXCEPT ![t] =
           ExportOutput(base_log_dir_, summary_logger_, loggers_, heap)]
    /\ exported' = FirstExport
    /\ mutex_' = NoThread
    /\ pc' = [pc EXCEPT ![t] = "ret"]
    /\ UNCHANGED <<now, phase, numTU, statics, env, openable, disk, reg, base_log_dir_,
                   initialized_, loggers_, summary_logger_, call, logger, nops,
                   autoExports, hookReport>>

\* the call returns to its caller
Return(t) ==
    /\ phase = "main"
    /\ pc[t] = "ret"
    /\ pc' = [pc EXCEPT ![t] = "idle"]
    /\ call' = [call EXCEPT ![t] = NoCall]
    /\ logger' = [logger EXCEPT ![t] = Null]
    /\ report' = [report EXCEPT ![t] = NoReport]
    /\ UNCHANGED <<now, phase, numTU, statics, env, openable, disk, reg, base_log_dir_,
                   initialized_, loggers_, summary_logger_, mutex_, heap, nops,
                   exported, autoExports, hookReport>>

\* ------------------------------------------------------- normal process exit
\* main returns (every thread has been joined): static objects are destroyed
\* in the reverse order of their construction
MainReturn ==
    /\ phase = "main"
    /\ \A t \in Threads : pc[t] = "idle"
    /\ phase' = "exit"
    /\ UNCHANGED <<now, numTU, statics, env, openable, disk, reg, base_log_dir_, initialized_,
                   loggers_, summary_logger_, mutex_, heap, pc, call, logger, report,
                   nops, exported, autoExports, hookReport>>

Top(stk) == stk[Len(stk)]
Pop(stk) == SubSeq(stk, 1, Len(stk) - 1)

\* ~AutoLogExporter of the newest exporter begins: LogManager::getInstance()
\* (which constructs the registry now if nothing used it before)
DestroyExporterBegin ==
    /\ phase = "exit"
    /\ statics # <<>>
    /\ Top(statics) = "exp"
    /\ GetInstance(Pop(statics))
    /\ phase' = "hook"
    /\ UNCHANGED <<now, numTU, env, openable, pc, call, logger, report, nops, exported,
                   autoExports, hookReport>>

\* ~AutoLogExporter: exportLogs() on the instance, which is still alive
DestroyExporterExport ==
    /\ phase = "hook"
    /\ reg = "alive"
    /\ heap' = exportLogsLoop(heap, loggers_)
    /\ hookReport' = ExportOutput(base_log_dir_, summary_logger_, loggers_, heap)
    /\ autoExports' = autoExports + 1
    /\ exported' = FirstExport
    /\ phase' = "exit"
    /\ UNCHANGED <<now, numTU, statics, env, openable, disk, reg, base_log_dir_, initialized_,
                   loggers_, summary_logger_, mutex_, pc, call, logger, report, nops>>

\* ~AutoLogExporter: exportLogs() on an instance whose destructor has already
\* run.  The behaviour is undefined: the call reads the dead object's members
\* and prints what they still hold, or the process faults.
DestroyExporterDangling ==
    /\ phase = "hook"
    /\ reg = "destroyed"
    /\ autoExports' = autoExports + 1
    /\ \/ /\ hookReport' = ExportOutput(base_log_dir_, summary_logger_, loggers_, heap)
          /\ exported' = FirstExport
          /\ phase' = "exit"
       \/ /\ phase' = "crashed"
          /\ UNCHANGED <<hookReport, exported>>
    /\ UNCHANGED <<now, numTU, statics, env, openable, disk, reg, base_log_dir_, initialized_,
                   loggers_, summary_logger_, mutex_, heap, pc, call, logger, report,
                   nops>>

\* ~LogManager: summary_logger_ and loggers_ release their FileLoggers, whose
\* destructors close the files
DestroyRegistry ==
    /\ phase = "exit"
    /\ statics # <<>>
    /\ Top(statics) = "reg"
    /\ statics' = Pop(statics)
    /\ reg' = "destroyed"
    /\ heap' = [i \in DOMAIN heap |-> DestroyFileLogger(heap[i])]
    /\ UNCHANGED <<now, phase, numTU, env, openable, disk, base_log_dir_, initialized_,
                   loggers_, summary_logger_, mutex_, pc, call, logger, report, nops,
                   exported, autoExports, hookReport>>

\* every static object has been destroyed: the process has ended normally
ExitDone ==
    /\ phase = "exit"
    /\ statics = <<>>
    /\ phase' = "done"
    /\ UNCHANGED <<now, numTU, statics, env, openable, disk, reg, base_log_dir_, initialized_,
                   loggers_, summary_logger_, mutex_, heap, pc, call, logger, report,
                   nops, exported, autoExports, hookReport>>

\* abnormal termination (fault, kill) at any point: what the streams still
\* buffer is lost, the files keep what was flushed
Crash ==
    /\ phase \in {"init", "main", "exit", "hook"}
    /\ phase' = "crashed"
    /\ heap' = [i \in DOMAIN heap |-> [heap[i] EXCEPT !.buf = <<>>]]
    /\ UNCHANGED <<now, numTU, statics, env, openable, disk, reg, base_log_dir_, initialized_,
                   loggers_, summary_logger_, mutex_, pc, call, logger, report, nops,
                   exported, autoExports, hookReport>>

\* ------------------------------------------------------------- specifications
Next ==
    \/ InitTU
    \/ StartMain
    \/ \E t \in Threads : Call(t)
    \/ \E t \in Threads : GetLoggerLock(t)
    \/ \E t \in Threads : GetLoggerFinish(t)
    \/ \E t \in Threads : ModuleLogEnter(t)
    \/ \E t \in Threads : ModuleLogWrite(t)
    \/ \E t \in Threads : SummaryLogEnter(t)
    \/ \E t \in Threads : SummaryLogWrite(t)
    \/ \E t \in Threads : ExportLock(t)
    \/ \E t \in Threads : ExportReport(t)
    \/ \E t \in Threads : Return(t)
    \/ MainReturn
    \/ DestroyExporterBegin
    \/ DestroyExporterExport
    \/ DestroyExporterDangling
    \/ DestroyRegistry
    \/ ExitDone

Spec == Init /\ [][Next]_vars

\* programs of several translation units, whose static initialisers may use
\* the registry before main; the program logs from its main thread
MainThread == CHOOSE t \in Threads : \A u \in Threads : t <= u
NextExit ==
    \/ InitTU
    \/ StaticGetInstance
    \/ StartMain
    \/ Call(MainThread)
    \/ GetLoggerLock(MainThread)
    \/ GetLoggerFinish(MainThread)
    \/ ModuleLogEnter(MainThread)
    \/ ModuleLogWrite(MainThread)
    \/ SummaryLogEnter(MainThread)
    \/ SummaryLogWrite(MainThread)
    \/ ExportLock(MainThread)
    \/ ExportReport(MainThread)
    \/ Return(MainThread)
    \/ MainReturn
    \/ DestroyExporterBegin
    \/ DestroyExporterExport
    \/ DestroyExporterDangling
    \/ DestroyRegistry
    \/ ExitDone
SpecExit == InitExit /\ [][NextExit]_vars

\* the same program, with abnormal termination possible at every point
SpecCrash == Init /\ [][Next \/ Crash]_vars

\* ------------------------------------------- programs that set the environment
\* LOG_DIR and ROS_WORKSPACE each unset, set, or (LOG_DIR) set to the empty string
EnvironmentsAll ==
    { [LOG_DIR |-> l, ROS_WORKSPACE |-> w] :
        l \in {Unset, EnvValue("/var/log/app"), EnvValue("")},
        w \in {Unset, EnvValue("/home/ws")} }

\* the file system lets every path be opened, or none
OpenChoicesAll ==
    { UNION {PathsUnder(BaseDir(e)) : e \in EnvironmentsAll}, {} }

\* the process starts with any of these environments, one translation unit
InitEnv ==
    /\ phase = "init"
    /\ numTU = 1
    /\ statics = <<>>
    /\ env \in EnvironmentsAll
    /\ openable \in OpenChoicesAll
    /\ disk = [p \in {} |-> <<>>]
    /\ reg = "none"
    /\ base_log_dir_ = ""
    /\ initialized_ = FALSE
    /\ loggers_ = EmptyMap
    /\ summary_logger_ = Null
    /\ mutex_ = NoThread
    /\ heap = <<>>
    /\ pc = [t \in Threads |-> "idle"]
    /\ call = [t \in Threads |-> NoCall]
    /\ logger = [t \in Threads |-> Null]
    /\ report = [t \in Threads |-> NoReport]
    /\ nops = 0
    /\ exported = 0
    /\ autoExports = 0
    /\ hookReport = NoReport
    /\ now = 0

\* the host program changes its environment (setenv / unsetenv) between two
\* logging calls; initializeLogDirectory reads it with getenv when it runs
Setenv ==
    /\ phase \in {"init", "main"}
    /\ \A t \in Threads : pc[t] = "idle"
    /\ env' \in EnvironmentsAll \ {env}
    /\ UNCHANGED <<now, phase, numTU, statics, openable, disk, reg, base_log_dir_,
                   initialized_, loggers_, summary_logger_, mutex_, heap, pc, call,
                   logger, report, nops, exported, autoExports, hookReport>>

NextEnv ==
    \/ InitTU
    \/ StartMain
    \/ Setenv
    \/ Call(MainThread)
    \/ GetLoggerLock(MainThread)
    \/ GetLoggerFinish(MainThread)
    \/ ModuleLogEnter(MainThread)
    \/ ModuleLogWrite(MainThread)
    \/ SummaryLogEnter(MainThread)
    \/ SummaryLogWrite(MainThread)
    \/ ExportLock(MainThread)
    \/ ExportReport(MainThread)
    \/ Return(MainThread)
    \/ MainReturn
    \/ DestroyExporterBegin
    \/ DestroyExporterExport
    \/ DestroyExporterDangling
    \/ DestroyRegistry
    \/ ExitDone
SpecEnv == InitEnv /\ [][NextEnv]_vars

\* ------------------------------------------------- programs with a running clock
\* the wall clock advances; it never goes backwards
Tick ==
    /\ phase = "main"
    /\ now < MaxClock
    /\ now' = now + 1
    /\ UNCHANGED <<phase, numTU, statics, env, openable, disk, reg, base_log_dir_,
                   initialized_, loggers_, summary_logger_, mutex_, heap, pc, call,
                   logger, report, nops, exported, autoExports, hookReport>>

\* every file can be opened
InitClock == Init /\ openable = PathsUnder(BaseDir(env))

SpecClock == InitClock /\ [][Next \/ Tick]_vars

\* the next step of thread t inside a call
ThreadStep(t) ==
    \/ GetLoggerLock(t)
    \/ GetLoggerFinish(t)
    \/ ModuleLogEnter(t)
    \/ ModuleLogWrite(t)
    \/ SummaryLogEnter(t)
    \/ SummaryLogWrite(t)
    \/ ExportLock(t)
    \/ ExportReport(t)
    \/ Return(t)

\* the thread is between a lock and its unlock
InCriticalSection(t) == pc[t] \in {"gl_create", "ex_report", "mod_write", "sum_write"}

\* ------------------------------------------------------------ fair scheduling
\* every thread that can take its next step eventually takes it: the scheduler
\* runs every runnable thread, and a thread waiting for a lock gets it once
\* the lock stays free
Fairness == \A t \in Threads : WF_vars(ThreadStep(t))

SpecFair == InitClock /\ [][Next]_vars /\ Fairness

\* ===================================================================== claims
\* helpers of the claims, written without the operators of the model
FileAt(p) == IF p \in DOMAIN disk THEN disk[p] ELSE <<>>

\* the whole lines of call `id` that FileLogger `lg` has put into file `p`
LinesOf(p, lg, id) ==
    LET f == FileAt(p)
    IN  Cardinality({i \in 1..Len(f) :
            /\ i < Len(f)
            /\ f[i].part = "head" /\ f[i].lg = lg /\ f[i].op = id
            /\ f[i + 1].part = "tail" /\ f[i + 1].lg = lg /\ f[i + 1].op = id})

\* every chunk of call `id` that FileLogger `lg` has put into any file
ChunksOf(lg, id) ==
    {pi \in UNION {{<<p, i>> : i \in 1..Len(disk[p])} : p \in DOMAIN disk} :
        disk[pi[1]][pi[2]].lg = lg /\ disk[pi[1]][pi[2]].op = id}

\* the logger exists, its file is open and the level reaches its minimum
AtOrAbove(lg, level) ==
    lg # Null /\ heap[lg].is_open /\ level >= heap[lg].min_level_

LevelNames == <<"DEBUG", "INFO", "WARN", "ERROR">>

\* b is the last component of path
IsBasename(b, path) ==
    /\ \A i \in 1..Len(b) : b[i] \notin Separators
    /\ Len(b) <= Len(path)
    /\ b = SubSeq(path, Len(path) - Len(b) + 1, Len(path))
    /\ Len(b) < Len(path) => path[Len(path) - Len(b)] \in Separators

\* the chunks of call c written by lg are one line carrying c's fields
CarriesRecord(lg, c) ==
    /\ LinesOf(heap[lg].log_file_path_, lg, c.id) = 1
    /\ Cardinality(ChunksOf(lg, c.id)) = 2
    /\ \A pi \in ChunksOf(lg, c.id) :
          LET ch == disk[pi[1]][pi[2]]
          IN  /\ pi[1] = heap[lg].log_file_path_
              /\ ch.part = "head" =>
                    /\ ch.text[1] = LevelNames[c.level + 1]
                    /\ ch.text[2] = c.module
                    /\ IsBasename(ch.text[3], c.file)
                    /\ ch.text[4] = c.line
              /\ ch.part = "tail" => ch.text = <<c.message>>

WriteLogReturned(t) == pc[t] = "ret" /\ call[t].kind = "writeLog"

BelowModuleMinimum(t) ==
    /\ WriteLogReturned(t)
    /\ logger[t] # Null
    /\ call[t].level < heap[logger[t]].min_level_

ConstructedFor(m) ==
    {id \in DOMAIN heap :
        /\ id # summary_logger_
        /\ heap[id].log_file_path_ = ModulePath(base_log_dir_, m)}

\* the thread's getLogger(module) has returned
GotLogger(t) ==
    \/ pc[t] = "ret" /\ call[t].kind = "getLogger"
    \/ pc[t] \in {"mod_log", "mod_write", "sum_log", "sum_write", "ret"}
       /\ call[t].kind = "writeLog"

\* C3: for a module whose file can be opened, however the getLogger calls of
\* the threads interleave, exactly one FileLogger is constructed and every
\* call returns that one registered instance.
C3_OneLoggerUnderRace ==
    \A m \in Modules :
        ModulePath(base_log_dir_, m) \in openable
        => /\ Cardinality(ConstructedFor(m)) <= 1
           /\ \A t \in Threads :
                 (GotLogger(t) /\ call[t].module = m /\ reg = "alive")
                 => /\ logger[t] # Null
                    /\ m \in DOMAIN loggers_
                    /\ logger[t] = loggers_[m]
                    /\ ConstructedFor(m) = {logger[t]}

\* C3 witness: the first two calls of the run are getLogger calls of two
\* threads for the same module, in flight together; both have returned the
\* single instance
C3_Witness ==
    \E m \in Modules :
        /\ nops = 2
        /\ \A t \in Threads :
              /\ pc[t] = "ret" /\ call[t].kind = "getLogger" /\ call[t].module = m
              /\ logger[t] # Null /\ logger[t] = loggers_[m]
        /\ Cardinality(ConstructedFor(m)) = 1

\* C4 as stated: at most one FileLogger is ever constructed per module name
\* (a failed construction is not retried).
C4_AsStated ==
    \A m \in Modules : Cardinality(ConstructedFor(m)) <= 1

\* every FileLogger constructed for a module is the registered one or a
\* failed one that was discarded; a caller holds the registered one or null
OnlyRegisteredSurvives ==
    /\ \A m \in Modules : \A id \in ConstructedFor(m) :
          \/ m \in DOMAIN loggers_ /\ loggers_[m] = id
          \/ ~heap[id].is_open /\ ~heap[id].alive
    /\ \A t \in Threads :
          (GotLogger(t) /\ reg = "alive")
          => IF call[t].module \in DOMAIN loggers_
             THEN logger[t] = loggers_[call[t].module]
             ELSE logger[t] = Null

\* C4 amended: at most one FileLogger is ever registered per module name: a
\* registration is never replaced or removed, every later caller gets the
\* registered instance, and a FileLogger whose open failed is discarded
\* without being registered (so the next call for that name constructs anew).
C4_OneRegisteredLogger ==
    [][/\ \A m \in DOMAIN loggers_ :
             m \in DOMAIN loggers_' /\ loggers_'[m] = loggers_[m]
       /\ OnlyRegisteredSurvives']_vars

\* C4 witness: the first call wrote through the module's logger, the second
\* call has been handed the same, only, instance
C4_Witness ==
    \E t \in Threads :
        /\ GotLogger(t) /\ call[t].id = 2
        /\ call[t].module \in DOMAIN loggers_
        /\ logger[t] = loggers_[call[t].module]
        /\ ConstructedFor(call[t].module) = {logger[t]}
        /\ LinesOf(heap[logger[t]].log_file_path_, logger[t], 1) = 1

\* getLogger returned nullptr to this writeLog: the module file did not open
ModuleLoggerFailed(t) == WriteLogReturned(t) /\ logger[t] = Null

\* C5 as stated: when the module's FileLogger failed to open the record is
\* still appended to the summary file; the summary logger is never null.
C5_AsStated ==
    /\ \A t \in Threads :
          ModuleLoggerFailed(t)
          => LinesOf(SummaryPath(base_log_dir_), summary_logger_, call[t].id) = 1
    /\ reg = "alive" => summary_logger_ # Null

\* C5 amended: when the module's FileLogger failed to open the record is still
\* appended to the summary file if the summary file itself could be opened;
\* the summary logger is present (non-null, alive) while the registry lives.
C5_Independent ==
    /\ \A t \in Threads :
          (ModuleLoggerFailed(t) /\ heap[summary_logger_].is_open)
          => CarriesRecord(summary_logger_, call[t])
    /\ reg = "alive" => /\ summary_logger_ # Null
                        /\ summary_logger_ \in DOMAIN heap
                        /\ heap[summary_logger_].alive

C5_Witness ==
    \E t \in Threads :
        /\ ModuleLoggerFailed(t)
        /\ ModulePath(base_log_dir_, call[t].module) \notin openable
        /\ heap[summary_logger_].is_open
        /\ CarriesRecord(summary_logger_, call[t])

\* the threads between the lock and the unlock of FileLogger lg's log
Inside(lg) ==
    {t \in Threads : \/ pc[t] = "mod_write" /\ logger[t] = lg
                     \/ pc[t] = "sum_write" /\ summary_logger_ = lg}

\* the file is a sequence of whole lines
WholeLines(f) ==
    /\ Len(f) % 2 = 0
    /\ \A i \in 1..Len(f) :
          i % 2 = 1 => /\ f[i].part = "head" /\ f[i + 1].part = "tail"
                       /\ f[i].op = f[i + 1].op /\ f[i].lg = f[i + 1].lg

\* what FileLogger lg has put into its file, in file order
WrittenBy(lg) ==
    LET ByLg(ch) == ch.lg = lg
    IN  SelectSeq(FileAt(heap[lg].log_file_path_), ByLg)

\* C6: at most one thread is inside a FileLogger's format-write-flush; every
\* file consists of whole lines; the lines a FileLogger has written are, in
\* file order, exactly the accepted log calls that have left its critical
\* section, in the order in which they were granted the lock.
C6_SerializedWrites ==
    /\ \A lg \in DOMAIN heap : Cardinality(Inside(lg)) <= 1
    /\ \A p \in DOMAIN disk : WholeLines(disk[p])
    /\ \A lg \in DOMAIN heap :
          LET f == WrittenBy(lg)
              n == Len(heap[lg].acq) - Cardinality(Inside(lg))
          IN  /\ Len(f) = 2 * n
              /\ \A k \in 1..n : /\ f[2 * k - 1].op = heap[lg].acq[k]
                                 /\ f[2 * k].op = heap[lg].acq[k]

\* C6 witness: two writeLog calls in flight together have both written to the
\* same module file, which holds their two whole lines
C6_Witness ==
    /\ nops = 2
    /\ \A t \in Threads : WriteLogReturned(t) /\ logger[t] # Null
    /\ \E lg \in DOMAIN heap :
          /\ lg # summary_logger_
          /\ \A t \in Threads : logger[t] = lg
          /\ Len(WrittenBy(lg)) = 4
          /\ heap[lg].log_file_path_ # heap[summary_logger_].log_file_path_
          /\ WholeLines(disk[heap[lg].log_file_path_])

\* C7: once FileLogger::log has returned for an accepted record, the record's
\* line is in the file on disk, and stays there if the process then crashes:
\* for the module write and the summary write of every call in progress, and
\* for every call that has left a logger's critical section.
C7_FlushedOnReturn ==
    /\ \A t \in Threads :
          (/\ pc[t] \in {"sum_log", "sum_write", "ret"}
           /\ call[t].kind = "writeLog"
           /\ AtOrAbove(logger[t], call[t].level))
          => CarriesRecord(logger[t], call[t])
    /\ \A t \in Threads :
          (WriteLogReturned(t) /\ AtOrAbove(summary_logger_, call[t].level))
          => CarriesRecord(summary_logger_, call[t])
    /\ \A lg \in DOMAIN heap :
          /\ \A k \in 1..(Len(heap[lg].acq) - Cardinality(Inside(lg))) :
                LinesOf(heap[lg].log_file_path_, lg, heap[lg].acq[k]) = 1
          /\ Inside(lg) = {} => heap[lg].buf = <<>>

\* C7 witness: the process crashed after the module write of a record had
\* returned and before its summary write; the module line is on disk
C7_Witness ==
    /\ phase = "crashed"
    /\ \E t \in Threads :
          /\ pc[t] \in {"sum_log", "sum_write"}
          /\ AtOrAbove(logger[t], call[t].level)
          /\ CarriesRecord(logger[t], call[t])

\* C8 as stated: when the process has ended normally, the shutdown hook has
\* called exportLogs exactly once, whatever the number of translation units.
C8_ExportedOnce ==
    /\ autoExports <= 1
    /\ phase = "done" => autoExports = 1

\* an exportLogs call completes: by a thread, or by the shutdown hook on the
\* living registry
ManualExportStep(t) == pc[t] = "ex_report" /\ pc'[t] = "ret"
HookExportStep == phase = "hook" /\ phase' = "exit" /\ reg = "alive"

\* exportLogs changes neither the registry, nor a logger, nor a file
ExportFrame ==
    /\ loggers_' = loggers_
    /\ summary_logger_' = summary_logger_
    /\ DOMAIN heap' = DOMAIN heap
    /\ \A id \in DOMAIN heap :
          /\ heap'[id].is_open = heap[id].is_open
          /\ heap'[id].alive = heap[id].alive
          /\ heap'[id].log_file_path_ = heap[id].log_file_path_
    /\ disk' = disk

\* the report names the directory, then the summary file, then the file of
\* every registered module
ReportsRegistry(r) ==
    /\ r.dir = base_log_dir_
    /\ Len(r.paths) = 1 + Cardinality(DOMAIN loggers_)
    /\ r.paths[1] = SummaryPath(base_log_dir_)
    /\ {r.paths[i] : i \in 2..Len(r.paths)}
          = {ModulePath(base_log_dir_, m) : m \in DOMAIN loggers_}

\* a writeLog that began after an exportLogs had completed
WroteAfterExport(t) ==
    /\ WriteLogReturned(t)
    /\ exported # 0 /\ call[t].id >= exported
    /\ AtOrAbove(logger[t], call[t].level)
    /\ AtOrAbove(summary_logger_, call[t].level)

Owned ==
    {id \in DOMAIN heap :
        id = summary_logger_ \/ \E m \in DOMAIN loggers_ : loggers_[m] = id}

\* C10 as stated: once an automatic export (exportLogs run by the auto
\* exporter at normal exit) has completed, no FileLogger owned by the registry
\* still has an open file.
C10_ExportClosesFiles ==
    (autoExports > 0 /\ phase \in {"exit", "done"})
    => \A id \in Owned : ~heap[id].is_open

\* a getLogger call returns: it releases the registry lock it took
GetLoggerReturns(t) == pc[t] = "gl_create" /\ pc'[t] # "gl_create"

\* C11: getLogger returns null only if the module's file cannot be opened;
\* when the file opens the returned logger is non-null, open and registered
\* under the module name; when the open fails the module -> FileLogger mapping
\* is left as it was (the failed logger is not registered).
C11_NullOnlyOnOpenFailure ==
    [][\A t \in Threads :
          GetLoggerReturns(t)
          => LET m == call[t].module
                 lg == logger'[t]
             IN  IF ModulePath(base_log_dir_, m) \in openable
                 THEN /\ lg # Null
                      /\ lg \in DOMAIN heap'
                      /\ heap'[lg].is_open
                      /\ heap'[lg].log_file_path_ = ModulePath(base_log_dir_, m)
                      /\ m \in DOMAIN loggers_' /\ loggers_'[m] = lg
                 ELSE /\ lg = Null
                      /\ loggers_' = loggers_]_vars

\* C11 witness: one getLogger has returned null for a module whose file does
\* not open and is not registered, another has returned the registered logger
\* of a module whose file opened
C11_Witness ==
    \E t, u \in Threads :
        /\ pc[t] = "ret" /\ call[t].kind = "getLogger"
        /\ logger[t] = Null
        /\ ModulePath(base_log_dir_, call[t].module) \notin openable
        /\ call[t].module \notin DOMAIN loggers_
        /\ pc[u] = "ret" /\ call[u].kind = "getLogger"
        /\ logger[u] # Null
        /\ heap[logger[u]].is_open
        /\ loggers_[call[u].module] = logger[u]

\* the FileLoggers whose file the file system refused to open
FailedToOpen == {lg \in DOMAIN heap : heap[lg].log_file_path_ \notin openable}

\* C12: a writeLog call in progress can always go on towards its return:
\* its next step can be taken, or it waits for a lock whose holder's next step
\* can be taken; nothing it does ends the process; this for every combination
\* of the directory, the summary file and the module file failing to open.  A
\* FileLogger whose file failed to open never enters its critical section and
\* writes nothing: every write through it is a no-op.
C12_WriteLogReturns ==
    /\ \A t \in Threads :
          (call[t].kind = "writeLog" /\ pc[t] # "idle")
          => /\ phase = "main"
             /\ \/ ENABLED ThreadStep(t)
                \/ \E u \in Threads \ {t} : InCriticalSection(u) /\ ENABLED ThreadStep(u)
    /\ \A lg \in FailedToOpen :
          /\ heap[lg].acq = <<>>
          /\ heap[lg].buf = <<>>
          /\ heap[lg].mutex_ = NoThread
          /\ \A p \in DOMAIN disk : \A i \in 1..Len(disk[p]) : disk[p][i].lg # lg
    /\ \A p \in DOMAIN disk : p \in openable

\* C12 witness: the directory could not be created, so neither the summary
\* file nor the module file opened; a writeLog has returned, the summary
\* logger is closed, the module logger was null and no file exists
C12_Witness ==
    \E t \in Threads :
        /\ WriteLogReturned(t)
        /\ openable = {}
        /\ logger[t] = Null
        /\ summary_logger_ \in FailedToOpen
        /\ Cardinality(FailedToOpen) >= 2
        /\ DOMAIN disk = {}

\* the LogManager is constructed in this step
RegistryConstructed == reg = "none" /\ reg' = "alive"

\* C13: when the registry is constructed its base directory is the value of
\* LOG_DIR if that variable is set, else the value of ROS_WORKSPACE followed
\* by "/logs/current" if that variable is set, else "/tmp/two_stage_int_logs",
\* and its summary logger writes base_directory/ALL_LOGS_SUMMARY.log; once the
\* registry exists, the base directory and the summary path never change,
\* whatever the program then does to its environment.
C13_BaseDirPrecedence ==
    [][/\ RegistryConstructed
          => /\ base_log_dir_' =
                   (IF env.LOG_DIR.set THEN env.LOG_DIR.val
                    ELSE IF env.ROS_WORKSPACE.set
                         THEN env.ROS_WORKSPACE.val \o "/logs/current"
                         ELSE "/tmp/two_stage_int_logs")
             /\ summary_logger_' \in DOMAIN heap'
             /\ heap'[summary_logger_'].log_file_path_
                   = base_log_dir_' \o "/ALL_LOGS_SUMMARY.log"
       /\ reg # "none"
          => /\ base_log_dir_' = base_log_dir_
             /\ summary_logger_' = summary_logger_
             /\ heap'[summary_logger_].log_file_path_
                   = heap[summary_logger_].log_file_path_]_vars

\* C13 witness: both variables were set when the registry was constructed, so
\* LOG_DIR won; the program has since unset LOG_DIR and logged a record, and
\* the summary line went to the LOG_DIR directory chosen at construction
C13_Witness ==
    /\ reg = "alive"
    /\ ~env.LOG_DIR.set /\ env.ROS_WORKSPACE.set
    /\ base_log_dir_ = "/var/log/app"
    /\ heap[summary_logger_].log_file_path_ = "/var/log/app/ALL_LOGS_SUMMARY.log"
    /\ Len(FileAt("/var/log/app/ALL_LOGS_SUMMARY.log")) >= 2

\* the timestamps of the lines of a file, in file order
TimestampsOf(f) ==
    LET IsHead(ch) == ch.part = "head"
        heads == SelectSeq(f, IsHead)
    IN  [i \in 1..Len(heads) |-> heads[i].ts]

\* C14 as stated: with a wall clock that never goes backwards, in every
\* interleaving of writeLog calls the timestamps of the lines of
\* ALL_LOGS_SUMMARY.log, and of every other log file, are non-decreasing in
\* file order.
C14_Chronological ==
    \A p \in DOMAIN disk :
        LET tss == TimestampsOf(disk[p])
        IN  \A i, j \in 1..Len(tss) : i < j => tss[i] <= tss[j]

\* thread t is about to write to its module logger while thread u is inside
\* the critical section of another module's logger
WritesBesides(t, u) ==
    /\ t # u
    /\ pc[u] = "mod_write"
    /\ pc[t] = "mod_log"
    /\ logger[t] # Null
    /\ call[t].module # call[u].module
    /\ logger[t] # logger[u]

\* a write to one module's logger goes on while another module's logger is locked
ModuleWritesIndependent ==
    \A t, u \in Threads : WritesBesides(t, u) => ENABLED ModuleLogEnter(t)

\* thread t, in writeLog, waits for the registry lock, which thread u holds
RegistryContention(t, u) ==
    /\ t # u
    /\ call[t].kind = "writeLog" /\ pc[t] = "getLogger"
    /\ call[u].kind = "writeLog" /\ mutex_ = u

\* C15 as stated: a write to module A's logger is not blocked by a thread
\* inside module B's logger, and two writeLog calls contend on the registry
\* lock only when one of them is creating a new module logger.
C15_AsStated ==
    /\ ModuleWritesIndependent
    /\ \A t, u \in Threads :
          RegistryContention(t, u)
          => \/ call[t].module \notin DOMAIN loggers_
             \/ call[u].module \notin DOMAIN loggers_

\* C15 amended: a write to module A's logger is not blocked by a thread inside
\* module B's logger; a thread inside a FileLogger's critical section does not
\* hold the registry lock; a writeLog call that cannot take its next step
\* waits either for the registry lock, which every getLogger call takes for
\* its lookup (whether or not it creates a logger) and every exportLogs call
\* takes, or for the lock of the very FileLogger it writes to.
C15_Independent ==
    /\ ModuleWritesIndependent
    /\ \A u \in Threads : pc[u] \in {"mod_write", "sum_write"} => mutex_ # u
    /\ \A t \in Threads :
          (call[t].kind = "writeLog" /\ pc[t] # "idle" /\ ~ENABLED ThreadStep(t))
          => \/ /\ pc[t] = "getLogger"
                /\ \E u \in Threads \ {t} :
                      mutex_ = u /\ pc[u] \in {"gl_create", "ex_report"}
             \/ /\ pc[t] = "mod_log"
                /\ \E u \in Threads \ {t} : u \in Inside(logger[t])
             \/ /\ pc[t] = "sum_log"
                /\ \E u \in Threads \ {t} : u \in Inside(summary_logger_)

\* C15 witness: two threads are inside the critical sections of two different
\* module loggers, on two different files, at the same time
C15_Witness ==
    \E t, u \in Threads :
        /\ t # u
        /\ pc[t] = "mod_write" /\ pc[u] = "mod_write"
        /\ call[t].module # call[u].module
        /\ logger[t] # logger[u]
        /\ heap[logger[t]].mutex_ = t /\ heap[logger[u]].mutex_ = u
        /\ heap[logger[t]].log_file_path_ # heap[logger[u]].log_file_path_

\* the locks thread t holds
LocksHeldBy(t) ==
    {<<"FileLogger", lg>> : lg \in {id \in DOMAIN heap : heap[id].mutex_ = t}}
        \cup (IF mutex_ = t THEN {<<"LogManager", Null>>} ELSE {})

\* the calls whose lines FileLogger lg has put into its file, in file order
RecordOrder(lg) ==
    LET w == WrittenBy(lg)
        IsHead(ch) == ch.part = "head"
        heads == SelectSeq(w, IsHead)
    IN  [i \in 1..Len(heads) |-> heads[i].op]

\* C16: the module write and the summary write of one writeLog call are two
\* separate critical sections: between them, and before and after them, the
\* thread holds no lock, and inside each it holds that FileLogger's lock only.
\* (That two racing records can then land in the summary file in the opposite
\* order to the module file is the reachable state C16_Witness.)
C16_SeparateSections ==
    \A t \in Threads :
        call[t].kind = "writeLog"
        => /\ pc[t] \in {"mod_log", "sum_log", "ret"} => LocksHeldBy(t) = {}
           /\ pc[t] = "mod_write" => LocksHeldBy(t) = {<<"FileLogger", logger[t]>>}
           /\ pc[t] = "sum_write" => LocksHeldBy(t) = {<<"FileLogger", summary_logger_>>}

\* C16 witness: two threads have each logged one record of the same module;
\* the module file holds the first call's line before the second's, the
\* summary file holds them in the opposite order
C16_Witness ==
    \E t, u \in Threads :
        /\ t # u
        /\ WriteLogReturned(t) /\ WriteLogReturned(u)
        /\ call[t].module = call[u].module
        /\ logger[t] # Null /\ logger[t] = logger[u]
        /\ logger[t] # summary_logger_
        /\ heap[logger[t]].log_file_path_ # heap[summary_logger_].log_file_path_
        /\ RecordOrder(logger[t]) = <<call[t].id, call[u].id>>
        /\ RecordOrder(summary_logger_) = <<call[u].id, call[t].id>>

\* C17 as stated: whenever ~AutoLogExporter calls getInstance().exportLogs()
\* the registry and the FileLoggers it owns are alive, in every order of
\* construction, and the registry is constructed at most once.
C17_HookUsesLiveRegistry ==
    /\ phase = "hook"
       => /\ reg = "alive"
          /\ \A id \in Owned : heap[id].alive
    /\ Count(statics, "reg") <= 1

\* the FileLoggers whose lines file p holds
WritersOf(p) == {disk[p][i].lg : i \in 1..Len(disk[p])}

\* C18 as stated: the FileLoggers the registry owns (the summary logger and
\* the registered module loggers) have pairwise distinct file paths, whatever
\* module names were passed to getLogger and writeLog, and no file on disk
\* holds lines written through two different FileLoggers (two locks).
C18_DistinctPaths ==
    /\ \A a, b \in Owned :
          a # b => heap[a].log_file_path_ # heap[b].log_file_path_
    /\ \A p \in DOMAIN disk : Cardinality(WritersOf(p)) <= 1

\* C19: a FileLogger's minimum level never changes after its construction; a
\* getLogger call for a registered name returns the registered logger, whose
\* minimum level stays what it was whatever level the call passes; a logger
\* created by an explicit getLogger(name, level) has that level as minimum, a
\* logger created implicitly by writeLog has minimum DEBUG.
C19_MinLevelFixedByCreator ==
    [][/\ \A id \in DOMAIN heap :
             id \in DOMAIN heap' /\ heap'[id].min_level_ = heap[id].min_level_
       /\ \A t \in Threads :
             GetLoggerReturns(t)
             => LET m == call[t].module
                IN  /\ m \in DOMAIN loggers_
                       => /\ logger'[t] = loggers_[m]
                          /\ loggers_'[m] = loggers_[m]
                          /\ heap'[logger'[t]].min_level_ = heap[loggers_[m]].min_level_
                    /\ (m \notin DOMAIN loggers_ /\ m \in DOMAIN loggers_')
                       => heap'[loggers_'[m]].min_level_ =
                             (IF call[t].kind = "writeLog" THEN DEBUG ELSE call[t].level)]_vars

\* C19 witness: getLogger(name, WARN) has returned the logger that an earlier
\* writeLog created for the name; its minimum level is still DEBUG
C19_Witness ==
    \E t \in Threads :
        /\ pc[t] = "ret" /\ call[t].kind = "getLogger"
        /\ logger[t] # Null
        /\ logger[t] = loggers_[call[t].module]
        /\ call[t].level = WARN
        /\ heap[logger[t]].min_level_ = DEBUG
        /\ heap[logger[t]].acq # <<>>

\* a call of thread t is in progress
InCall(t) == pc[t] # "idle"

\* C20: no thread ever holds two locks at once, and none outside a critical
\* section; whenever a call is in progress some thread can take a step (no
\* interleaving of getLogger, writeLog and exportLogs calls deadlocks); under
\* fair scheduling every call eventually returns.
C20_NoDeadlock ==
    /\ [](\A t \in Threads :
             /\ Cardinality(LocksHeldBy(t)) <= 1
             /\ ~InCriticalSection(t) => LocksHeldBy(t) = {})
    /\ []((\E t \in Threads : InCall(t)) => ENABLED (\E t \in Threads : ThreadStep(t)))
    /\ \A t \in Threads : InCall(t) ~> ~InCall(t)

\* C20 witness: one thread is inside the registry's critical section, the
\* other inside a FileLogger's, each holding exactly its one lock, and a
\* third call has already returned
C20_Witness ==
    \E t, u \in Threads :
        /\ pc[t] \in {"gl_create", "ex_report"} /\ LocksHeldBy(t) = {<<"LogManager", Null>>}
        /\ pc[u] \in {"mod_write", "sum_write"} /\ Cardinality(LocksHeldBy(u)) = 1
        /\ nops = MaxOps

====
